---- MODULE Spec2Model ----
(***************************************************************************)
(* Branch and bound over picos relaxations, as implemented by              *)
(* BBTreeNode.bbsolve in assignments/assignment-2/bab/bab_starter.py.      *)
(*                                                                         *)
(* The problems are those of the class docstring's shape over              *)
(* vars = [x, y, z]:  z == c1*x + c2*y + off  together with linear         *)
(* inequalities a*x + b*y <= c, and z the maximised objective.  Values     *)
(* are exact rationals [n, d]; the relaxation is solved exactly, by        *)
(* enumerating the vertices of the polygon.                                *)
(*                                                                         *)
(* picos keeps a variable's value in the variable object.  Every node is   *)
(* built over the same variable objects (line 49 passes self.vars on, and  *)
(* Problem.clone shares the variables of the problem it clones), so the    *)
(* values read through any node's vars are those of the most recent        *)
(* successful solve: the variable vals.  A solve that finds no optimal     *)
(* primal solution raises SolutionFailure and applies no value.            *)
(***************************************************************************)
EXTENDS Integers, Sequences, FiniteSets, TLC

EpsInv == 10000          \* the tolerance of lines 75 and 146 is 1 / EpsInv
MinusBig == 1000000      \* stands for the 1e20 of line 124

MaxCoord == 3            \* boxes reach up to MaxCoord in each direction
MaxCuts == 2             \* inequalities besides the box
MaxCounter == 14         \* a call is followed while it has drawn < MaxCounter numbers
MaxCalls == 2            \* bbsolve is called at most MaxCalls times in a row
MaxProbe == 1            \* is_integral is probed around the integers 0..MaxProbe

VarNames == <<"x", "y", "z">>
VarsRef == "vars"         \* the one list object every node's .vars refers to

VARIABLES prob, pc, heap, counter, vals, bestres, bestnode_vars, solves,
          accepts, seen, last, calls, counter0, pushed

vars == <<prob, pc, heap, counter, vals, bestres, bestnode_vars, solves,
          accepts, seen, last, calls, counter0,
          pushed>>

-----------------------------------------------------------------------------
(* Exact numbers *)

Abs(n) == IF n < 0 THEN -n ELSE n

RECURSIVE GCD(_, _)
GCD(a, b) == IF b = 0 THEN a ELSE GCD(b, a % b)

\* the rational n/d in lowest terms with a positive denominator
Rat(n, d) ==
    LET s == IF d < 0 THEN -1 ELSE 1
        g == GCD(Abs(n), Abs(d))
    IN  [n |-> (s * n) \div g, d |-> (s * d) \div g]

RInt(k) == [n |-> k, d |-> 1]
RAdd(r, s) == Rat(r.n * s.d + s.n * r.d, r.d * s.d)
RScale(k, r) == Rat(k * r.n, r.d)
RLess(r, s) == r.n * s.d < s.n * r.d
RLeq(r, s) == r.n * s.d <= s.n * r.d

\* math.floor / math.ceil
Floor(r) == r.n \div r.d
Ceil(r) == -((-r.n) \div r.d)

\* Python 3 round(): the nearest integer, a tie going to the even one
Round(r) ==
    LET q == r.n \div r.d
        m == r.n % r.d
    IN  IF 2 * m < r.d THEN q
        ELSE IF 2 * m > r.d THEN q + 1
        ELSE IF q % 2 = 0 THEN q ELSE q + 1

\* abs(round(v) - float(v)) > 1e-4
MutFractional(r) == Abs(Round(r) * r.d - r.n) * EpsInv < r.d
Fractional(r) == Abs(Round(r) * r.d - r.n) * EpsInv > r.d

-----------------------------------------------------------------------------
(* Problems *)

HP(a, b, c) == [a |-> a, b |-> b, c |-> c]       \* a*x + b*y <= c

\* x >= 0, y >= 0, x <= hx2/2, y <= hy2/2
Box(hx2, hy2) == {HP(-1, 0, 0), HP(0, -1, 0), HP(2, 0, hx2), HP(0, 2, hy2)}

CutList ==
    {HP(-5, 4, 0), HP(6, 2, 17),     \* the docstring: -5x+4y <= 0, 6x+2y <= 17
     HP(2, 3, 5),
     HP(-1, 0, -5),                  \* x >= 5
     HP(-2, 0, -1)}                  \* x >= 1/2

Objectives == {<<1, 1>>, <<1, 2>>, <<-1, 1>>}

\* the objective is parallel to no constraint: the optimum is one vertex
NoTie(p) == \A h \in p.cons : p.obj[1] * h.b - p.obj[2] * h.a # 0

Ordinary ==
    {p \in [cons : {Box(hx2, hy2) \cup cs :
                        hx2 \in 1..(2 * MaxCoord), hy2 \in 1..(2 * MaxCoord),
                        cs \in {s \in SUBSET CutList : Cardinality(s) <= MaxCuts}},
            obj : Objectives, off : {0}] : NoTie(p)}

\* maximise z == x + y - 2e20 over x = 1/2, y = 0
LowProblem ==
    [cons |-> Box(1, 0) \cup {HP(-2, 0, -1)}, obj |-> <<1, 1>>,
     off |-> -2 * MinusBig]

Problems == Ordinary \cup {LowProblem}

-----------------------------------------------------------------------------
(* Nodes and the relaxation *)

\* A node is the root problem plus the bounds added on the way down.
Root == [added |-> <<>>]

Range(s) == {s[i] : i \in 1..Len(s)}

\* an added bound  var <= k  or  var >= k  as a half plane
BoundHP(p, b) ==
    LET a == IF b.var = "x" THEN 1 ELSE IF b.var = "y" THEN 0 ELSE p.obj[1]
        c == IF b.var = "x" THEN 0 ELSE IF b.var = "y" THEN 1 ELSE p.obj[2]
        k == IF b.var = "z" THEN b.bound - p.off ELSE b.bound
    IN  IF b.dir = "le" THEN HP(a, c, k) ELSE HP(-a, -c, -k)

\* prob.constraints of the node
Constraints(p, node) == p.cons \cup {BoundHP(p, b) : b \in Range(node.added)}

Satisfies(h, pt) ==
    h.a * pt.x.n * pt.y.d + h.b * pt.y.n * pt.x.d <= h.c * pt.x.d * pt.y.d

ObjValue(p, pt) ==
    RAdd(RAdd(RScale(p.obj[1], pt.x), RScale(p.obj[2], pt.y)), RInt(p.off))

\* where the boundary lines of g and h meet
Meet(g, h) ==
    LET det == g.a * h.b - h.a * g.b
    IN  [x |-> Rat(g.c * h.b - h.c * g.b, det),
         y |-> Rat(g.a * h.c - h.a * g.c, det)]

Vertices(H) ==
    {pt \in {Meet(gh[1], gh[2]) :
                gh \in {q \in H \X H : q[1].a * q[2].b - q[2].a * q[1].b # 0}} :
        \A k \in H : Satisfies(k, pt)}

\* prob.solve(solver="cvxopt"): the optimum of the relaxation, or a failure
Solve(p, node) ==
    LET V == Vertices(Constraints(p, node))
    IN  IF V = {} THEN [status |-> "infeasible"]
        ELSE LET best == CHOOSE pt \in V :
                            \A q \in V : RLeq(ObjValue(p, q), ObjValue(p, pt))
             IN  [status |-> "optimal",
                  value |-> [x |-> <<best.x>>, y |-> <<best.y>>,
                             z |-> <<ObjValue(p, best)>>]]

NoValues == [x |-> <<>>, y |-> <<>>, z |-> <<>>]

\* v.value of a variable that has a value
Val(vs, name) == vs[name][1]

MutIsIntegralAll(vs) ==
    \A i \in 1..Len(VarNames) :
        ~ (vs[VarNames[i]] = <<>> \/ Fractional(Val(vs, VarNames[i])))
MutIsIntegral(vs) == ~ (vs[VarNames[1]] = <<>> \/ Fractional(Val(vs, VarNames[1])))
is_integral(vs) ==
    \A i \in 1..(Len(VarNames) - 1) :
        ~ (vs[VarNames[i]] = <<>> \/ Fractional(Val(vs, VarNames[i])))

\* lines 144-149: the first variable of vars that is off an integer, else vars[0]
MutChosenVar(vs) ==
    LET frac == {i \in 1..Len(VarNames) : Fractional(Val(vs, VarNames[i]))}
    IN  IF frac = {} THEN VarNames[1]
        ELSE VarNames[CHOOSE i \in frac : \A j \in frac : i >= j]
chosen_var(vs) ==
    LET frac == {i \in 1..Len(VarNames) : Fractional(Val(vs, VarNames[i]))}
    IN  IF frac = {} THEN VarNames[1]
        ELSE VarNames[CHOOSE i \in frac : \A j \in frac : i <= j]

\* The problem objects alive during one branching step: mem[ref] is the list
\* of bounds added to the problem at address ref.
\* lines 39-49: Problem.clone gives the copy a constraint list of its own
MutDeepcopy(mem, ref) == [mem |-> mem, ref |-> ref]
__deepcopy__(mem, ref) == [mem |-> Append(mem, mem[ref]), ref |-> Len(mem) + 1]

\* lines 91, 106: prob.add_constraint
add_constraint(mem, ref, c) == [mem EXCEPT ![ref] = Append(@, c)]

branch_floor(mem, ref, v, vs) ==
    LET n1 == __deepcopy__(mem, ref)
    IN  [mem |-> add_constraint(n1.mem, n1.ref,
                     [var |-> v, dir |-> "le", bound |-> Floor(Val(vs, v))]),
         ref |-> n1.ref]

MutBranchCeil(mem, ref, v, vs) ==
    LET n2 == __deepcopy__(mem, ref)
    IN  [mem |-> add_constraint(n2.mem, n2.ref,
                     [var |-> v, dir |-> "ge", bound |-> Floor(Val(vs, v))]),
         ref |-> n2.ref]
branch_ceil(mem, ref, v, vs) ==
    LET n2 == __deepcopy__(mem, ref)
    IN  [mem |-> add_constraint(n2.mem, n2.ref,
                     [var |-> v, dir |-> "ge", bound |-> Ceil(Val(vs, v))]),
         ref |-> n2.ref]

\* line 141: thisres.objective.value > bestres
MutExceeds(z, best) == TRUE
Exceeds(z, best) == RLess(best, z)

-----------------------------------------------------------------------------
(* The heap of (key, count, node) tuples *)

\* line 121 puts the Solution object itself in the tuple
SolutionKey(z) == [tag |-> "Solution", val |-> z]
FloatKey(f) == [tag |-> "float", val |-> f]

\* tuple comparison: first the key, then the count
TupleLess(e, f) ==
    \/ RLess(e.key.val, f.key.val)
    \/ e.key.val = f.key.val /\ e.seq < f.seq

\* hq.heappop: the smallest tuple
heappop(h) == CHOOSE e \in h : \A f \in h \ {e} : TupleLess(e, f)

heappush(h, e) == h \cup {e}

-----------------------------------------------------------------------------
(* bbsolve *)

BestInit == RInt(-MinusBig)

Init ==
    /\ prob \in Problems
    /\ pc = "start"
    /\ heap = {}
    /\ counter = 0
    /\ vals = NoValues
    /\ bestres = BestInit
    /\ bestnode_vars = VarsRef
    /\ solves = 0
    /\ accepts = 0
    /\ seen = {}
    /\ last = [kind |-> "none"]
    /\ calls = 1
    /\ counter0 = 0
    /\ pushed = <<>>

\* what a step records of the state it started from
Pre(e) == [entry |-> e, heap |-> heap, bestres |-> bestres, vals |-> vals,
           solves |-> solves, counter |-> counter]

\* the frontier in the order it will be popped, and all else the rest of
\* the run depends on
RECURSIVE PopOrder(_)
PopOrder(h) ==
    IF h = {} THEN <<>>
    ELSE LET e == heappop(h)
         IN  <<[key |-> e.key, cons |-> Range(e.node.added)]>>
                 \o PopOrder(h \ {e})

Config == [queue |-> PopOrder(heap), vals |-> vals, bestres |-> bestres]

\* lines 119-120 when the root relaxation has no solution: solve raises
StartRaise ==
    /\ pc = "start"
    /\ Solve(prob, Root).status # "optimal"
    /\ pc' = "raised"
    /\ solves' = solves + 1
    /\ last' = [kind |-> "raise"]
    /\ UNCHANGED <<prob, heap, counter, vals, bestres, bestnode_vars,
                   accepts, seen, calls, counter0, pushed>>

\* lines 119-127
Start ==
    /\ pc = "start"
    /\ LET r == Solve(prob, Root)
       IN  /\ r.status = "optimal"
           /\ vals' = r.value
           /\ heap' = {[key |-> SolutionKey(Val(r.value, "z")),
                        seq |-> counter, node |-> Root]}
    /\ counter' = counter + 1
    /\ pushed' = Append(pushed, counter)
    /\ bestres' = BestInit
    /\ bestnode_vars' = VarsRef
    /\ solves' = solves + 1
    /\ pc' = "loop"
    /\ last' = [kind |-> "start"]
    /\ UNCHANGED <<prob, accepts, seen, calls, counter0>>

\* lines 130, 136-138
Accept ==
    /\ pc = "loop" /\ heap # {}
    /\ LET e == heappop(heap)
       IN  /\ is_integral(vals)
           /\ bestres' = Val(vals, "z")
           /\ bestnode_vars' = VarsRef
           /\ heap' = heap \ {e}
           /\ last' = [kind |-> "accept", pre |-> Pre(e)]
    /\ accepts' = accepts + 1
    /\ seen' = seen \cup {Config}
    /\ UNCHANGED <<prob, pc, counter, vals, solves, calls, counter0, pushed>>

\* one child of lines 156-166: solve it, push it unless the solve raised
MutAdmitAll(st, child) ==
    LET r == Solve(prob, child)
    IN  [heap |-> heappush(st.heap, [key |-> FloatKey(bestres),
                                     seq |-> st.counter, node |-> child]),
         counter |-> st.counter + 1,
         vals |-> IF r.status = "optimal" THEN r.value ELSE st.vals,
         pushed |-> Append(st.pushed, st.counter)]
MutAdmitSameNumber(st, child) ==
    LET r == Solve(prob, child)
    IN  IF r.status = "optimal"
        THEN [heap |-> heappush(st.heap, [key |-> FloatKey(bestres),
                                          seq |-> st.counter, node |-> child]),
              counter |-> st.counter,
              vals |-> r.value,
              pushed |-> Append(st.pushed, st.counter)]
        ELSE st
MutAdmit(st, child) ==
    LET r == Solve(prob, child)
    IN  IF r.status = "optimal"
        THEN [heap |-> heappush(st.heap, [key |-> FloatKey(Val(r.value, "z")),
                                          seq |-> st.counter, node |-> child]),
              counter |-> st.counter + 1,
              vals |-> r.value,
              pushed |-> Append(st.pushed, st.counter)]
        ELSE st
Admit(st, child) ==
    LET r == Solve(prob, child)
    IN  IF r.status = "optimal"
        THEN [heap |-> heappush(st.heap, [key |-> FloatKey(bestres),
                                          seq |-> st.counter, node |-> child]),
              counter |-> st.counter + 1,
              vals |-> r.value,
              pushed |-> Append(st.pushed, st.counter)]
        ELSE st

\* lines 130, 141-166
Branch ==
    /\ pc = "loop" /\ heap # {}
    /\ counter - counter0 < MaxCounter
    /\ LET e == heappop(heap)
           v == chosen_var(vals)
           b1 == branch_floor(<<e.node.added>>, 1, v, vals)
           b2 == branch_ceil(b1.mem, 1, v, vals)
           n1 == [added |-> b2.mem[b1.ref]]
           n2 == [added |-> b2.mem[b2.ref]]
           s0 == [heap |-> heap \ {e}, counter |-> counter, vals |-> vals,
                  pushed |-> pushed]
           s1 == Admit(s0, n1)
           s2 == Admit(s1, n2)
       IN  /\ ~ is_integral(vals)
           /\ Exceeds(Val(vals, "z"), bestres)
           /\ heap' = s2.heap
           /\ counter' = s2.counter
           /\ pushed' = s2.pushed
           /\ vals' = s2.vals
           /\ last' = [kind |-> "branch", pre |-> Pre(e), var |-> v,
                       n1 |-> n1, n2 |-> n2,
                       parent |-> [added |-> b2.mem[1]]]
    /\ solves' = solves + 2
    /\ seen' = seen \cup {Config}
    /\ UNCHANGED <<prob, pc, bestres, bestnode_vars, accepts, calls, counter0>>

\* lines 130, 169-170
Prune ==
    /\ pc = "loop" /\ heap # {}
    /\ LET e == heappop(heap)
       IN  /\ ~ is_integral(vals)
           /\ ~ Exceeds(Val(vals, "z"), bestres)
           /\ heap' = heap \ {e}
           /\ last' = [kind |-> "prune", pre |-> Pre(e)]
    /\ seen' = seen \cup {Config}
    /\ UNCHANGED <<prob, pc, counter, vals, bestres, bestnode_vars, solves,
                   accepts, calls, counter0, pushed>>

\* lines 129, 172
Return ==
    /\ pc = "loop" /\ heap = {}
    /\ pc' = "done"
    /\ last' = [kind |-> "return"]
    /\ UNCHANGED <<prob, heap, counter, vals, bestres, bestnode_vars, solves,
                   accepts, seen, calls, counter0, pushed>>

\* bbsolve is called again on the same root: the module's counter (line 10)
\* goes on from where it stood and the variables keep their values; the
\* frontier and the incumbent are the new call's own (lines 121-127)
CallAgain ==
    /\ pc \in {"done", "raised"}
    /\ calls < MaxCalls
    /\ calls' = calls + 1
    /\ counter0' = counter
    /\ pc' = "start"
    /\ heap' = {}
    /\ bestres' = BestInit
    /\ bestnode_vars' = VarsRef
    /\ solves' = 0
    /\ accepts' = 0
    /\ seen' = {}
    /\ last' = [kind |-> "call"]
    /\ UNCHANGED <<prob, counter, vals, pushed>>

Next == StartRaise \/ Start \/ Accept \/ Branch \/ Prune \/ Return \/ CallAgain

Spec == Init /\ [][Next]_vars

-----------------------------------------------------------------------------
(* is_integral on its own: a node whose variables hold arbitrary values *)

\* None, and values at, just inside, on and just outside the tolerance
\* around an integer, in steps of a tenth of the tolerance
ProbeOffsets == {0, 10, 11, -10, -11, 5 * EpsInv}
ProbeValues ==
    {<<>>} \cup {<<Rat(k * 10 * EpsInv + o, 10 * EpsInv)>> :
                     k \in 0..MaxProbe, o \in ProbeOffsets}

InitIsIntegral ==
    /\ prob = LowProblem
    /\ pc = "call"
    /\ vals \in [x : ProbeValues, y : ProbeValues, z : ProbeValues]
    /\ heap = {}
    /\ counter = 0
    /\ bestres = BestInit
    /\ bestnode_vars = VarsRef
    /\ solves = 0
    /\ accepts = 0
    /\ seen = {}
    /\ last = [kind |-> "none"]
    /\ calls = 1
    /\ counter0 = 0
    /\ pushed = <<>>

\* lines 65-77
CallIsIntegral ==
    /\ pc = "call"
    /\ pc' = "returned"
    /\ last' = [kind |-> "is_integral", arg |-> vals,
                result |-> is_integral(vals)]
    /\ UNCHANGED <<prob, heap, counter, vals, bestres, bestnode_vars, solves,
                   accepts, seen, calls, counter0, pushed>>

SpecIsIntegral == InitIsIntegral /\ [][CallIsIntegral]_vars

-----------------------------------------------------------------------------
(* What the claims speak of, stated apart from the operators bbsolve uses *)

\* within 1e-4 of an integer
NearInteger(r) ==
    \E k \in {Floor(r), Ceil(r)} : Abs(k * r.d - r.n) * EpsInv <= r.d

Point(vs) == [x |-> Val(vs, "x"), y |-> Val(vs, "y")]

IntegralPoint(pt) == NearInteger(pt.x) /\ NearInteger(pt.y)

\* the integer points of a node's feasible region
IntGrid == {[x |-> RInt(i), y |-> RInt(j)] : i \in 0..MaxCoord, j \in 0..MaxCoord}
IntPoints(p, node) ==
    {pt \in IntGrid : \A h \in Constraints(p, node) : Satisfies(h, pt)}

\* the node's own relaxation
Own(node) == Solve(prob, node)
OwnIntegral(node) ==
    Own(node).status = "optimal" /\ IntegralPoint(Point(Own(node).value))

Popped == last.kind \in {"accept", "branch", "prune"}

\* what line 172 hands back: bestres, and the values of the variables of
\* the list bestnode_vars refers to
ReturnedObjective == bestres
ReturnedValues == vals

Numbers == [n : Int, d : Nat \ {0}]

\* C1: when bbsolve returns for a problem with an integer-feasible point,
\* the returned objective is the maximum of the objective over the integer
\* points that satisfy the root constraints.
C1_ReturnsIntegerOptimum ==
    (pc = "done" /\ IntPoints(prob, Root) # {}) =>
        /\ \A pt \in IntPoints(prob, Root) :
               RLeq(ObjValue(prob, pt), ReturnedObjective)
        /\ \E pt \in IntPoints(prob, Root) :
               ObjValue(prob, pt) = ReturnedObjective

\* C2: bestres never decreases, and a step changes it only if the popped
\* node's relaxation is integral and its objective is strictly greater than
\* the incumbent held before the step.
C2_IncumbentOnlyImproves ==
    Popped =>
        /\ RLeq(last.pre.bestres, bestres)
        /\ bestres # last.pre.bestres =>
               /\ OwnIntegral(last.pre.entry.node)
               /\ RLess(last.pre.bestres, Val(Own(last.pre.entry.node).value, "z"))

\* C3: when bbsolve returns after accepting an integral node, the returned
\* values are integral, satisfy the root constraints, and their objective
\* is the returned objective.
C3_ReturnsIncumbentAssignment ==
    (pc = "done" /\ accepts > 0) =>
        /\ IntegralPoint(Point(ReturnedValues))
        /\ \A h \in prob.cons : Satisfies(h, Point(ReturnedValues))
        /\ Val(ReturnedValues, "z") = ObjValue(prob, Point(ReturnedValues))
        /\ Val(ReturnedValues, "z") = ReturnedObjective

C3_Witness ==
    pc = "done" /\ accepts > 0 /\ solves > 1 /\ IntPoints(prob, Root) # {}

\* C4: when the frontier empties with no integral node accepted, the
\* returned objective is no number: it cannot be taken for an objective value.
C4_NoSolutionIsNotANumber ==
    (pc = "done" /\ accepts = 0) => ReturnedObjective \notin Numbers

\* C5: when the root relaxation has no optimal solution, bbsolve ends at
\* once with the no-solution result: it does not raise, pushes nothing and
\* calls the oracle no further.
C5_RootFailureReturns ==
    (pc # "start" /\ Own(Root).status # "optimal") =>
        pc = "done" /\ heap = {} /\ counter = counter0 /\ solves = 1

\* C6: the loop of bbsolve terminates on every bounded problem.  The loop is
\* deterministic and what it does next depends on Config alone, so it
\* terminates only if no configuration comes back.
C6_NoConfigurationRecurs ==
    (pc = "loop" /\ heap # {}) => Config \notin seen

\* C7: a popped node whose own relaxation is fractional and whose own
\* objective is not strictly greater than the incumbent is not expanded:
\* the step makes no child, calls no oracle and pushes nothing.
C7_Dominated ==
    /\ Popped
    /\ ~ OwnIntegral(last.pre.entry.node)
    /\ RLeq(Val(Own(last.pre.entry.node).value, "z"), last.pre.bestres)

C8_ChildrenPartitionParent ==
    last.kind = "branch" =>
        LET parent == last.pre.entry.node
            lo == last.n1.added[Len(last.n1.added)]
            hi == last.n2.added[Len(last.n2.added)]
        IN  /\ lo.var = hi.var /\ lo.dir = "le" /\ hi.dir = "ge"
            /\ lo.bound < hi.bound
            /\ \A pt \in IntPoints(prob, parent) :
                   (pt \in IntPoints(prob, last.n1))
                       # (pt \in IntPoints(prob, last.n2))

C8_Witness ==
    /\ last.kind = "branch"
    /\ IntPoints(prob, last.n1) # {}
    /\ IntPoints(prob, last.n2) # {}

\* C9: when the root relaxation is integral, bbsolve never branches (one
\* oracle call, no child) and returns the root's objective and values.
C9_RootIntegral == OwnIntegral(Root)

C9_IntegralRootReturnedAtOnce ==
    C9_RootIntegral =>
        /\ solves <= 1 /\ counter <= counter0 + 1
        /\ pc = "done" =>
               /\ ReturnedObjective = Val(Own(Root).value, "z")
               /\ ReturnedValues = Own(Root).value
               /\ solves = 1
               /\ counter = counter0 + 1

C9_Witness == pc = "done" /\ C9_RootIntegral

\* C10: a pop removes an entry whose key is the highest in the frontier:
\* no entry of the frontier before the pop has a strictly higher key.
C10_PoppedKeyIsHighest ==
    Popped =>
        \A f \in last.pre.heap : ~ RLess(last.pre.entry.key.val, f.key.val)

C10_Witness == Popped /\ Cardinality(last.pre.heap) >= 3

\* C11: every entry of the frontier carries as its key the objective value
\* of its own node's relaxation (the root too), not the incumbent's value
\* at the time of the push.
C11_KeyIsOwnObjective ==
    \A e \in heap : e.key.val = Val(Own(e.node).value, "z")

\* C12: the values a popped node is tested and branched with are those of
\* its own relaxation, whatever was solved after it.
C12_PoppedNodeReadsOwnValues ==
    Popped => last.pre.vals = Own(last.pre.entry.node).value

\* C13: a branching step submits both children to the oracle, pushes
\* exactly the children whose relaxation is optimal, drops the others
\* without raising, and leaves the rest of the frontier in place.
C13_Pushed == {e \in heap : e \notin last.pre.heap}

C13_OnlyOptimalChildrenAdmitted ==
    last.kind = "branch" =>
        /\ solves = last.pre.solves + 2
        /\ pc = "loop"
        /\ last.pre.heap \ {last.pre.entry} \subseteq heap
        /\ {e.node : e \in C13_Pushed}
               = {n \in {last.n1, last.n2} : Own(n).status = "optimal"}
        /\ Cardinality(C13_Pushed)
               = Cardinality({n \in {last.n1, last.n2} : Own(n).status = "optimal"})

C13_Witness ==
    /\ last.kind = "branch"
    /\ Own(last.n1).status = "optimal"
    /\ Own(last.n2).status # "optimal"
    /\ Cardinality(heap) >= 2

\* C14: after a branching step the floor child holds the parent's bounds
\* plus v <= floor(x) and nothing else, the ceil child holds the parent's
\* bounds plus v >= ceil(x) and nothing else, and the parent holds what it
\* held before.
C14_ChildAddsOneBound ==
    last.kind = "branch" =>
        LET before == last.pre.entry.node.added
            x == Val(last.pre.vals, last.var)
        IN  /\ last.n1.added
                   = Append(before, [var |-> last.var, dir |-> "le",
                                     bound |-> Floor(x)])
            /\ last.n2.added
                   = Append(before, [var |-> last.var, dir |-> "ge",
                                     bound |-> Ceil(x)])
            /\ last.parent.added = before

C14_Witness ==
    /\ last.kind = "branch"
    /\ Len(last.pre.entry.node.added) >= 1
    /\ \E e \in heap : e.node = last.n1
    /\ \E e \in heap : e.node = last.n2

\* C15: once an integral node has been accepted, the incumbent's value is
\* the objective of a point that satisfies the root constraints and whose
\* x and y are within 1e-4 of integers.
C15_IncumbentIsIntegerFeasible ==
    accepts > 0 =>
        \E pt \in IntPoints(prob, Root) : ObjValue(prob, pt) = bestres

C15_Witness ==
    accepts > 0 /\ pc = "loop" /\ heap # {} /\ solves > 1

\* C18: a branching step branches on the first of x, y (declared order,
\* the objective carrier z left out) whose value is not within 1e-4 of an
\* integer; such a variable exists, so z and the fallback are never taken.
C18_Fractionals ==
    {i \in 1..(Len(VarNames) - 1) :
        ~ NearInteger(Val(last.pre.vals, VarNames[i]))}

C18_BranchesOnFirstFractional ==
    last.kind = "branch" =>
        /\ C18_Fractionals # {}
        /\ \E i \in C18_Fractionals :
               /\ \A j \in C18_Fractionals : i <= j
               /\ last.var = VarNames[i]
        /\ last.var # VarNames[Len(VarNames)]

C18_Witness ==
    /\ last.kind = "branch"
    /\ last.var = "y"
    /\ ~ NearInteger(Val(last.pre.vals, "z"))

\* C16: the sequence numbers drawn from the counter are strictly increasing
\* in push order, over all calls of bbsolve; the entries of the frontier
\* carry pairwise distinct numbers; and a pop takes, among the entries with
\* the popped key, the one pushed first.
C16_TiesDecidedBySequenceNumber ==
    /\ \A i, j \in 1..Len(pushed) : i < j => pushed[i] < pushed[j]
    /\ \A e \in heap : \E i \in 1..Len(pushed) : pushed[i] = e.seq
    /\ \A e, f \in heap : e # f => e.seq # f.seq
    /\ Popped =>
           \A f \in last.pre.heap \ {last.pre.entry} :
               f.key = last.pre.entry.key => last.pre.entry.seq < f.seq

C16_Witness ==
    /\ Popped
    /\ calls > 1
    /\ \E f \in last.pre.heap \ {last.pre.entry} : f.key = last.pre.entry.key

\* C17: is_integral is true exactly when x and y (every variable but the
\* last) both have a value within 1e-4 of an integer; an undefined x or y
\* makes it false, and z has no say.
C17_IsIntegralIffAllNear ==
    last.kind = "is_integral" =>
        (last.result <=>
            \A i \in 1..(Len(VarNames) - 1) :
                /\ last.arg[VarNames[i]] # <<>>
                /\ NearInteger(Val(last.arg, VarNames[i])))

C17_Witness ==
    /\ last.kind = "is_integral"
    /\ last.result
    /\ last.arg.z = <<>>
    /\ Val(last.arg, "x").d > 1

====
